---- MODULE Spec2Model ----
(***************************************************************************)
(* Wage calculator (src/js/keisan.js): the time-field formatter, the HH:MM *)
(* validation and parsing, and calculateWage.                              *)
(*                                                                         *)
(* JavaScript numbers are IEEE-754 binary64 values; the calculator's       *)
(* results depend on their rounding (minutes / 60 is not exact), so the    *)
(* arithmetic is modelled bit for bit: a number is a record                *)
(*   [k, neg, hi, lo, e]   with value (-1)^neg * (hi * 2^28 + lo) * 2^e,   *)
(* the 53-bit significand hi * 2^28 + lo being normalised (hi >= 2^24) or  *)
(* zero, and every operation is the exact result rounded to nearest, ties  *)
(* to even.  Below 2^-1022 the exponent e stays at -1074 and hi is below   *)
(* 2^24 (subnormal numbers); a result of 2^1024 or more is an infinity,    *)
(* [k |-> "inf", neg]; NaN is [k |-> "nan"].                               *)
(*                                                                         *)
(* Strings are sequences of one-character strings.  A character outside    *)
(* ASCII is the string of its code point, "U+3000" for the ideographic     *)
(* space, and counts as one character.                                     *)
(***************************************************************************)
EXTENDS Integers, Sequences, FiniteSets, TLC

(***************************************************************************)
(* binary64 arithmetic                                                     *)
(***************************************************************************)
B28 == 2^28
B14 == 2^14

NaN == [k |-> "nan", neg |-> FALSE, hi |-> 0, lo |-> 0, e |-> 0]

Zero(neg) == [k |-> "num", neg |-> neg, hi |-> 0, lo |-> 0, e |-> 0]

Inf(neg) == [k |-> "inf", neg |-> neg, hi |-> 0, lo |-> 0, e |-> 0]

\* The exponent of the subnormal numbers and of the smallest normal ones (the
\* exponent of the largest finite numbers is 1023 - 52).
MinExp == 0 - 1074

isNaN(x) == x.k = "nan"

IsInf(x) == x.k = "inf"

IsZero(x) == x.k = "num" /\ x.hi = 0 /\ x.lo = 0

RECURSIVE BitLen(_)
BitLen(n) == IF n = 0 THEN 0 ELSE 1 + BitLen(n \div 2)

\* The number with significand hi * 2^28 + lo and exponent e: an infinity
\* when the exponent is beyond the largest one.
Num(neg, hi, lo, e) ==
    IF hi = 0 /\ lo = 0 THEN Zero(neg)
    ELSE IF e > 1023 - 52 THEN Inf(neg)
    ELSE [k |-> "num", neg |-> neg, hi |-> hi, lo |-> lo, e |-> e]

\* Round to nearest, ties to even: grs holds the guard, round and sticky bits
\* that follow the significand hi * 2^28 + lo; rounding up adds one to the
\* significand, the carry propagated.
RoundGRS(neg, hi, lo, grs, e) ==
    IF grs < 4 \/ (grs = 4 /\ lo % 2 = 0) THEN Num(neg, hi, lo, e)
    ELSE IF lo + 1 < B28 THEN Num(neg, hi, lo + 1, e)
    ELSE IF hi + 1 = 2^25 THEN Num(neg, 2^24, 0, e + 1)
    ELSE Num(neg, hi + 1, 0, e)

\* v with its lowest bit set when bits were lost (sticky)
Jam(v, lost) == IF lost /\ v % 2 = 0 THEN v + 1 ELSE v

\* Shift h * 2^28 + l right by d bits; the bits shifted out are or-ed into the
\* lowest bit kept.
ShrSticky(h, l, d) ==
    IF d = 0 THEN <<h, l>>
    ELSE IF d < 28
    THEN <<h \div 2^d, Jam((h % 2^d) * 2^(28 - d) + (l \div 2^d), l % 2^d # 0)>>
    ELSE IF d < 56
    THEN <<0, Jam(h \div 2^(d - 28), h % 2^(d - 28) # 0 \/ l # 0)>>
    ELSE <<0, IF h # 0 \/ l # 0 THEN 1 ELSE 0>>

\* A magnitude h * 2^28 + l below 2^56, times 2^ew: the significand followed
\* by guard, round and sticky bits.  (Gradual underflow: below the smallest
\* exponent the magnitude is first shifted right.)
RoundPack(neg, h, l, ew) ==
    IF ew + 3 >= MinExp
    THEN RoundGRS(neg, h \div 8, (l \div 8) + (h % 8) * 2^25, l % 8, ew + 3)
    ELSE RoundGRS(neg, ShrSticky(h, l, MinExp - (ew + 3))[1] \div 8,
                  (ShrSticky(h, l, MinExp - (ew + 3))[2] \div 8)
                    + (ShrSticky(h, l, MinExp - (ew + 3))[1] % 8) * 2^25,
                  ShrSticky(h, l, MinExp - (ew + 3))[2] % 8, MinExp)

\* h * 2^28 + l shifted left by s bits (no bit is lost), times 2^(ew - s)
ShiftPack(neg, h, l, ew, s) ==
    IF s < 28
    THEN RoundPack(neg, h * 2^s + (l \div 2^(28 - s)), (l % 2^(28 - s)) * 2^s, ew - s)
    ELSE RoundPack(neg, l * 2^(s - 28), 0, ew - s)

\* The number of bits of h * 2^28 + l
BitLen2(h, l) == IF h > 0 THEN 28 + BitLen(h) ELSE BitLen(l)

\* A nonzero magnitude h * 2^28 + l below 2^56, times 2^ew: shift left until
\* the top bit is bit 55 or the exponent is the smallest one, then round.
Normalize(neg, h, l, ew) ==
    ShiftPack(neg, h, l, ew,
              IF 56 - BitLen2(h, l) <= ew + 3 - MinExp THEN 56 - BitLen2(h, l)
              ELSE ew + 3 - MinExp)

\* The number n >= 0, an integer of the model (n < 2^31).
FromNat(n) ==
    IF n = 0 THEN Zero(FALSE) ELSE Normalize(FALSE, n \div B28, n % B28, 0)

\* |x| < |y| for two numbers (the exponents compare first: the significands
\* are normalised but for the smallest exponent).
MagLt(x, y) ==
    IF IsInf(x) THEN FALSE
    ELSE IF IsInf(y) THEN TRUE
    ELSE IF IsZero(y) THEN FALSE
    ELSE IF IsZero(x) THEN TRUE
    ELSE IF x.e # y.e THEN x.e < y.e
    ELSE IF x.hi # y.hi THEN x.hi < y.hi
    ELSE x.lo < y.lo

FNeg(x) == IF isNaN(x) THEN NaN ELSE [x EXCEPT !.neg = ~x.neg]

\* The sum h * 2^28 + l0 of two aligned magnitudes (l0 < 2^29, h < 2^29)
AddMag(neg, h0, l0, ew) ==
    IF h0 + (l0 \div B28) >= B28
    THEN RoundPack(neg, (h0 + (l0 \div B28)) \div 2,
                   Jam(((h0 + (l0 \div B28)) % 2) * 2^27 + ((l0 % B28) \div 2),
                       l0 % 2 = 1),
                   ew + 1)
    ELSE RoundPack(neg, h0 + (l0 \div B28), l0 % B28, ew)

\* The difference of two aligned magnitudes, the first the larger
SubMag(neg, ah, al, bh, bl, ew) ==
    IF ah = bh /\ al = bl THEN Zero(FALSE)
    ELSE IF al < bl THEN Normalize(neg, ah - 1 - bh, al + B28 - bl, ew)
    ELSE Normalize(neg, ah - bh, al - bl, ew)

\* a + b for the aligned 56-bit magnitudes <<ah, al>> >= bs
AddAligned(aneg, bneg, ah, al, bs, ew) ==
    IF aneg = bneg THEN AddMag(aneg, ah + bs[1], al + bs[2], ew)
    ELSE SubMag(aneg, ah, al, bs[1], bs[2], ew)

\* a + b for nonzero numbers with |a| >= |b|
AddOrdered(a, b) ==
    AddAligned(a.neg, b.neg, a.hi * 8 + (a.lo \div 2^25), (a.lo % 2^25) * 8,
               ShrSticky(b.hi * 8 + (b.lo \div 2^25), (b.lo % 2^25) * 8, a.e - b.e),
               a.e - 3)

\* x + y
FAdd(x, y) ==
    IF isNaN(x) \/ isNaN(y) THEN NaN
    ELSE IF IsInf(x) THEN (IF IsInf(y) /\ x.neg # y.neg THEN NaN ELSE x)
    ELSE IF IsInf(y) THEN y
    ELSE IF IsZero(x) /\ IsZero(y) THEN Zero(x.neg /\ y.neg)
    ELSE IF IsZero(x) THEN y
    ELSE IF IsZero(y) THEN x
    ELSE IF MagLt(x, y) THEN AddOrdered(y, x)
    ELSE AddOrdered(x, y)

\* x - y
FSub(x, y) == FAdd(x, FNeg(y))

\* x < y, x >= y, x <= y, x > y (every comparison with NaN is false)
FLt(x, y) ==
    IF isNaN(x) \/ isNaN(y) THEN FALSE
    ELSE IF IsZero(x) /\ IsZero(y) THEN FALSE
    ELSE IF IsZero(x) THEN ~y.neg
    ELSE IF IsZero(y) THEN x.neg
    ELSE IF x.neg # y.neg THEN x.neg
    ELSE IF x.neg THEN MagLt(y, x) ELSE MagLt(x, y)

FEq(x, y) ==
    IF isNaN(x) \/ isNaN(y) THEN FALSE
    ELSE IF IsZero(x) \/ IsZero(y) THEN IsZero(x) /\ IsZero(y)
    ELSE x = y

FGe(x, y) == FLt(y, x) \/ FEq(x, y)

FLe(x, y) == FLt(x, y) \/ FEq(x, y)

FGt(x, y) == FLt(y, x)

\* h * 2^28 + l (below 2^53) shifted left by s bits, no bit being lost
ShlPair(h, l, s) ==
    IF s < 28 THEN <<h * 2^s + (l \div 2^(28 - s)), (l % 2^(28 - s)) * 2^s>>
    ELSE <<l * 2^(s - 28), 0>>

\* A finite nonzero number with its significand normalised (hi >= 2^24), the
\* exponent of a subnormal number going below the smallest one.
Widen(x) ==
    IF x.hi >= 2^24 THEN x
    ELSE [x EXCEPT !.hi = ShlPair(x.hi, x.lo, 53 - BitLen2(x.hi, x.lo))[1],
                   !.lo = ShlPair(x.hi, x.lo, 53 - BitLen2(x.hi, x.lo))[2],
                   !.e = x.e - (53 - BitLen2(x.hi, x.lo))]

\* The four base-2^14 limbs of a significand, least significant first.
Limbs(x) == <<x.lo % B14, x.lo \div B14, x.hi % B14, x.hi \div B14>>

\* Carry propagation over column sums c[i..], base 2^14: the limbs, the last
\* one holding what is left of the carry.
RECURSIVE CarryProp(_, _, _, _)
CarryProp(c, i, carry, acc) ==
    IF i > Len(c) THEN acc \o <<carry>>
    ELSE CarryProp(c, i + 1, (c[i] + carry) \div B14, acc \o <<(c[i] + carry) % B14>>)

\* The column sums of the product of two 4-limb significands
MulCols(a, b) ==
    <<a[1] * b[1],
      a[1] * b[2] + a[2] * b[1],
      a[1] * b[3] + a[2] * b[2] + a[3] * b[1],
      a[1] * b[4] + a[2] * b[3] + a[3] * b[2] + a[4] * b[1],
      a[2] * b[4] + a[3] * b[3] + a[4] * b[2],
      a[3] * b[4] + a[4] * b[3],
      a[4] * b[4]>>

\* The top 56 bits of the 8-limb product p (bits 42 + s and up), sticky
MulShift(neg, p, e, s) ==
    RoundPack(neg,
              (p[6] \div 2^s) + p[7] * 2^(14 - s) + p[8] * 2^(28 - s),
              Jam((p[4] \div 2^s) + p[5] * 2^(14 - s) + (p[6] % 2^s) * 2^(28 - s),
                  p[4] % 2^s # 0 \/ p[1] # 0 \/ p[2] # 0 \/ p[3] # 0),
              e + 42 + s)

\* x * y: the exact 106-bit product of the significands, rounded.
MulPack(neg, p, e) == MulShift(neg, p, e, IF p[8] >= 2^7 THEN 8 ELSE 7)

FMul(x, y) ==
    IF isNaN(x) \/ isNaN(y) THEN NaN
    ELSE IF IsInf(x) \/ IsInf(y)
    THEN (IF IsZero(x) \/ IsZero(y) THEN NaN ELSE Inf(x.neg # y.neg))
    ELSE IF IsZero(x) \/ IsZero(y) THEN Zero(x.neg # y.neg)
    ELSE MulPack(x.neg # y.neg,
                 CarryProp(MulCols(Limbs(Widen(x)), Limbs(Widen(y))), 1, 0, <<>>),
                 Widen(x).e + Widen(y).e)

\* One step of the long division of significands: st is <<rh, rl, qh, ql, n>>,
\* the running remainder (below the divisor <<dh, dl>>), the quotient bits so
\* far and the number of bits still to produce; the step doubles the
\* remainder and produces the next quotient bit.
DivStep(st, dh, dl) ==
    LET l2 == st[2] * 2
        h2 == st[1] * 2 + (l2 \div B28)
        l3 == l2 % B28
        bw == IF l3 < dl THEN 1 ELSE 0
        q0 == st[4] * 2
        q1 == st[4] * 2 + 1
    IN  IF h2 > dh \/ (h2 = dh /\ l3 >= dl)
        THEN <<h2 - dh - bw, l3 + bw * B28 - dl,
               st[3] * 2 + (q1 \div B28), q1 % B28, st[5] - 1>>
        ELSE <<h2, l3, st[3] * 2 + (q0 \div B28), q0 % B28, st[5] - 1>>

\* At most m steps of the long division, stopping when no bit is left to
\* produce (m is split in halves, which bounds the depth of the evaluation).
RECURSIVE DivBits(_, _, _, _)
DivBits(st, dh, dl, m) ==
    IF m = 0 \/ st[5] = 0 THEN st
    ELSE IF m = 1 THEN DivStep(st, dh, dl)
    ELSE DivBits(DivBits(st, dh, dl, m \div 2), dh, dl, m - (m \div 2))

\* The 56 quotient bits q[3] * 2^28 + q[4], sticky when a remainder is left
DivPack(neg, q, ew) ==
    RoundPack(neg, q[3], Jam(q[4], q[1] # 0 \/ q[2] # 0), ew)

\* x / y for finite nonzero numbers with normalised significands: 1 + 55
\* quotient bits when the significand of x is not below that of y, 56
\* otherwise.
DivWide(x, y) ==
    IF x.hi > y.hi \/ (x.hi = y.hi /\ x.lo >= y.lo)
    THEN DivPack(x.neg # y.neg,
                 DivBits(<<x.hi - y.hi - (IF x.lo < y.lo THEN 1 ELSE 0),
                           x.lo + (IF x.lo < y.lo THEN B28 ELSE 0) - y.lo,
                           0, 1, 55>>, y.hi, y.lo, 64),
                 x.e - y.e - 55)
    ELSE DivPack(x.neg # y.neg,
                 DivBits(<<x.hi, x.lo, 0, 0, 56>>, y.hi, y.lo, 64),
                 x.e - y.e - 56)

FDiv(x, y) ==
    IF isNaN(x) \/ isNaN(y) THEN NaN
    ELSE IF IsInf(x) THEN (IF IsInf(y) THEN NaN ELSE Inf(x.neg # y.neg))
    ELSE IF IsInf(y) THEN Zero(x.neg # y.neg)
    ELSE IF IsZero(y) THEN (IF IsZero(x) THEN NaN ELSE Inf(x.neg # y.neg))
    ELSE IF IsZero(x) THEN Zero(x.neg # y.neg)
    ELSE DivWide(Widen(x), Widen(y))

(***************************************************************************)
(* Natural numbers of any size, for the conversions between numbers and    *)
(* decimal strings: base-2^14 limbs, least significant first, no zero limb *)
(* at the top; <<>> is 0.                                                  *)
(***************************************************************************)
RECURSIVE TopLimb(_, _)
TopLimb(a, n) == IF n = 0 \/ a[n] # 0 THEN n ELSE TopLimb(a, n - 1)

BigTrim(a) == SubSeq(a, 1, TopLimb(a, Len(a)))

Limb(a, i) == IF i <= Len(a) THEN a[i] ELSE 0

\* Carry propagation over the column sums c[lo..hi], base 2^14: the limbs
\* and the carry that leaves them (the range is split in halves, which
\* bounds the depth of the evaluation).
CarryJoin(left, right) == <<left[1] \o right[1], right[2]>>

RECURSIVE CarryRange(_, _, _, _)
CarryFrom(c, lo, hi, left) ==
    CarryJoin(left, CarryRange(c, lo + ((hi - lo) \div 2) + 1, hi, left[2]))

CarryRange(c, lo, hi, carry) ==
    IF lo > hi THEN <<<<>>, carry>>
    ELSE IF lo = hi THEN <<<<(c[lo] + carry) % B14>>, (c[lo] + carry) \div B14>>
    ELSE CarryFrom(c, lo, hi, CarryRange(c, lo, lo + ((hi - lo) \div 2), carry))

\* The limbs of the column sums c, the carry on top
CarryTop(r) == BigTrim(r[1] \o <<r[2]>>)

BigCarry(c, carry) == CarryTop(CarryRange(c, 1, Len(c), carry))

\* h * 2^28 + l, for h and l below 2^28
BigOfPair(h, l) == BigTrim(<<l % B14, l \div B14, h % B14, h \div B14>>)

\* a below 2^56 as the pair <<h, l>> with a = h * 2^28 + l
BigPair(a) == <<Limb(a, 3) + Limb(a, 4) * B14, Limb(a, 1) + Limb(a, 2) * B14>>

\* a * c for a small c (c < 2^14)
BigMulSmall(a, c) == BigCarry([i \in 1..Len(a) |-> a[i] * c], 0)

BigAdd(a, b) ==
    BigCarry([i \in 1..(IF Len(a) > Len(b) THEN Len(a) ELSE Len(b)) |->
                 Limb(a, i) + Limb(b, i)], 0)

\* a - b for a >= b: a plus the complement of b, less the 2^(14 Len(a)) that
\* the sum carries out
BigSub(a, b) ==
    BigTrim(CarryRange([i \in 1..Len(a) |-> a[i] + (B14 - 1) - Limb(b, i)],
                       1, Len(a), 1)[1])

\* a < b
RECURSIVE BigLtAt(_, _, _)
BigLtAt(a, b, i) ==
    IF i = 0 THEN FALSE
    ELSE IF a[i] # b[i] THEN a[i] < b[i]
    ELSE BigLtAt(a, b, i - 1)

BigLt(a, b) == IF Len(a) # Len(b) THEN Len(a) < Len(b) ELSE BigLtAt(a, b, Len(a))

BigBitLen(a) == IF a = <<>> THEN 0 ELSE 14 * (Len(a) - 1) + BitLen(a[Len(a)])

\* a * 2^s
BigShl(a, s) ==
    IF a = <<>> THEN <<>>
    ELSE [i \in 1..(s \div 14) |-> 0] \o BigMulSmall(a, 2^(s % 14))

\* floor(a / 2^k)
BigShr(a, k) ==
    IF Len(a) <= k \div 14 THEN <<>>
    ELSE BigTrim([i \in 1..(Len(a) - (k \div 14)) |->
                    (a[i + (k \div 14)] \div 2^(k % 14))
                      + (Limb(a, i + (k \div 14) + 1) % 2^(k % 14)) * 2^(14 - (k % 14))])

\* 2^k divides a
BigLowZero(a, k) ==
    /\ \A i \in 1..Len(a) : i <= k \div 14 => a[i] = 0
    /\ Limb(a, (k \div 14) + 1) % 2^(k % 14) = 0

\* a * 10^x
RECURSIVE BigMul10(_, _)
BigMul10(a, x) ==
    IF a = <<>> THEN a
    ELSE IF x <= 4 THEN BigMulSmall(a, 10^x)
    ELSE BigMul10(BigMul10(a, x \div 2), x - (x \div 2))

\* <<floor(a / c), a % c>> for a small c (c <= 10000)
RECURSIVE BigDivSmallAt(_, _, _, _, _)
BigDivSmallAt(a, c, i, rem, acc) ==
    IF i = 0 THEN <<BigTrim(acc), rem>>
    ELSE BigDivSmallAt(a, c, i - 1, (rem * B14 + a[i]) % c,
                       <<(rem * B14 + a[i]) \div c>> \o acc)

BigDivSmall(a, c) == BigDivSmallAt(a, c, Len(a), 0, <<>>)

\* The top 56 bits of a nonzero a, as a pair, the bits below them (and
\* sticky, what the caller has already lost) or-ed into the lowest bit.
BigTop56(a, sticky) ==
    IF BigBitLen(a) <= 56
    THEN <<BigPair(BigShl(a, 56 - BigBitLen(a)))[1],
           Jam(BigPair(BigShl(a, 56 - BigBitLen(a)))[2], sticky)>>
    ELSE <<BigPair(BigShr(a, BigBitLen(a) - 56))[1],
           Jam(BigPair(BigShr(a, BigBitLen(a) - 56))[2],
               sticky \/ ~BigLowZero(a, BigBitLen(a) - 56))>>

RoundTop(neg, p, ew) == RoundPack(neg, p[1], p[2], ew)

\* The number nearest to a * 2^e
BigRound(neg, a, e, sticky) ==
    IF a = <<>> THEN Zero(neg)
    ELSE RoundTop(neg, BigTop56(a, sticky), e + BigBitLen(a) - 56)

\* One step of the long division of r by d: st is <<r, qh, ql, n>>, the
\* remainder, the quotient bits so far and the number of bits to produce.
QuotStep(st, d) ==
    IF BigLt(st[1], d)
    THEN <<BigMulSmall(st[1], 2),
           st[2] * 2 + ((st[3] * 2) \div B28), (st[3] * 2) % B28, st[4] - 1>>
    ELSE <<BigMulSmall(BigSub(st[1], d), 2),
           st[2] * 2 + ((st[3] * 2 + 1) \div B28), (st[3] * 2 + 1) % B28, st[4] - 1>>

RECURSIVE QuotBits(_, _, _)
QuotBits(st, d, m) ==
    IF m = 0 \/ st[4] = 0 THEN st
    ELSE IF m = 1 THEN QuotStep(st, d)
    ELSE QuotBits(QuotBits(st, d, m \div 2), d, m - (m \div 2))

\* The quotient bits q = st[2] * 2^28 + st[3] (56 or 57 of them), times
\* 2^ew, sticky when a remainder is left
QuotPack(neg, st, ew) ==
    IF st[2] >= B28
    THEN RoundTop(neg, ShrSticky(st[2], Jam(st[3], st[1] # <<>>), 1), ew + 1)
    ELSE RoundPack(neg, st[2], Jam(st[3], st[1] # <<>>), ew)

\* The number nearest to a / d * 2^sh, for a and d of the same bit length:
\* floor(a / d * 2^56) by 57 steps of long division.
QuotAligned(neg, a, d, sh) ==
    QuotPack(neg, QuotBits(<<a, 0, 0, 57>>, d, 64), sh - 56)

\* The number nearest to a / d (a and d nonzero)
BigQuot(neg, a, d) ==
    IF BigBitLen(a) >= BigBitLen(d)
    THEN QuotAligned(neg, a, BigShl(d, BigBitLen(a) - BigBitLen(d)),
                     BigBitLen(a) - BigBitLen(d))
    ELSE QuotAligned(neg, BigShl(a, BigBitLen(d) - BigBitLen(a)), d,
                     BigBitLen(a) - BigBitLen(d))

(***************************************************************************)
(* Strings and the built-in conversions the program calls                  *)
(***************************************************************************)
Digits == <<"0", "1", "2", "3", "4", "5", "6", "7", "8", "9">>

IsDigit(c) == \E i \in 1..10 : Digits[i] = c

DigitVal(c) == (CHOOSE i \in 1..10 : Digits[i] = c) - 1

\* The white space that String.prototype.trim removes and that parseInt and
\* parseFloat skip: TAB, LF, VT, FF, CR and the space; outside ASCII the
\* no-break space, the other space separators, the line and paragraph
\* separators and the byte order mark.
IsSpace(c) ==
    c \in {" ", "\t", "\n", "\r", "\f", "",
            "U+00A0", "U+1680", "U+2000", "U+2001", "U+2002", "U+2003", "U+2004",
            "U+2005", "U+2006", "U+2007", "U+2008", "U+2009", "U+200A", "U+2028",
            "U+2029", "U+202F", "U+205F", "U+3000", "U+FEFF"}

RECURSIVE DecStr(_)
DecStr(n) ==
    IF n < 10 THEN <<Digits[n + 1]>>
    ELSE DecStr(n \div 10) \o <<Digits[(n % 10) + 1]>>

\* String.prototype.trim
RECURSIVE TrimLeft(_)
TrimLeft(s) ==
    IF s # <<>> /\ IsSpace(Head(s)) THEN TrimLeft(Tail(s)) ELSE s

RECURSIVE TrimRight(_)
TrimRight(s) ==
    IF s # <<>> /\ IsSpace(s[Len(s)]) THEN TrimRight(SubSeq(s, 1, Len(s) - 1))
    ELSE s

trim(s) == TrimRight(TrimLeft(s))

\* String.prototype.split with a one-character separator
RECURSIVE split(_, _)
split(s, sep) ==
    IF \A i \in 1..Len(s) : s[i] # sep THEN <<s>>
    ELSE LET i == CHOOSE j \in 1..Len(s) :
                     s[j] = sep /\ \A m \in 1..(j - 1) : s[m] # sep
         IN  <<SubSeq(s, 1, i - 1)>> \o split(SubSeq(s, i + 1, Len(s)), sep)

\* The longest prefix of s made of digits
DigitPrefix(s) ==
    SubSeq(s, 1, CHOOSE n \in 0..Len(s) :
                     /\ \A i \in 1..n : IsDigit(s[i])
                     /\ n < Len(s) => ~IsDigit(s[n + 1]))

\* The value of a digit string in base 10 (0 for the empty string)
RECURSIVE DecVal(_)
DecVal(d) ==
    IF d = <<>> THEN 0 ELSE DecVal(SubSeq(d, 1, Len(d) - 1)) * 10 + DigitVal(d[Len(d)])

\* A string starts with a sign; the string without it; a value with its sign
HasSign(t) == t # <<>> /\ Head(t) \in {"+", "-"}

Unsigned(t) == IF HasSign(t) THEN Tail(t) ELSE t

WithSign(t, v) == IF HasSign(t) /\ Head(t) = "-" THEN FNeg(v) ELSE v

\* s without its leading zeros
RECURSIVE StripZeros(_)
StripZeros(s) == IF s # <<>> /\ Head(s) = "0" THEN StripZeros(Tail(s)) ELSE s

\* The natural number a digit string writes (the string is split in halves,
\* which bounds the depth of the evaluation)
RECURSIVE BigOfDigits(_)
BigOfDigits(d) ==
    IF Len(d) <= 4 THEN BigOfPair(0, DecVal(d))
    ELSE BigAdd(BigMul10(BigOfDigits(SubSeq(d, 1, Len(d) \div 2)),
                         Len(d) - (Len(d) \div 2)),
                BigOfDigits(SubSeq(d, (Len(d) \div 2) + 1, Len(d))))

\* The number nearest to d * 10^x, for a digit string d without leading
\* zeros: an infinity from 2^1024 on (d * 10^x is below 10^(Len(d) + x)), a
\* zero below the half of the smallest number, the rounded product of two
\* naturals when x >= 0 and their rounded quotient when x < 0.
DecNumber(d, x) ==
    IF d = <<>> THEN Zero(FALSE)
    ELSE IF Len(d) + x > 310 THEN Inf(FALSE)
    ELSE IF Len(d) + x < 0 - 330 THEN Zero(FALSE)
    ELSE IF x >= 0 THEN BigRound(FALSE, BigMul10(BigOfDigits(d), x), 0, FALSE)
    ELSE BigQuot(FALSE, BigOfDigits(d), BigMul10(<<1>>, -x))

\* parseInt(s, 10): leading white space, an optional sign, then the longest
\* run of digits; NaN when there is no digit.
parseInt(s) ==
    IF DigitPrefix(Unsigned(TrimLeft(s))) = <<>> THEN NaN
    ELSE WithSign(TrimLeft(s),
                  DecNumber(StripZeros(DigitPrefix(Unsigned(TrimLeft(s)))), 0))

\* The digits after a decimal point at the head of rest, and what follows
\* the point and these digits
FracDigits(rest) ==
    IF rest # <<>> /\ Head(rest) = "." THEN DigitPrefix(Tail(rest)) ELSE <<>>

AfterFrac(rest) ==
    IF rest # <<>> /\ Head(rest) = "."
    THEN SubSeq(rest, 2 + Len(DigitPrefix(Tail(rest))), Len(rest))
    ELSE rest

\* The value of the digits of an exponent (10^7 for any larger one: both are
\* beyond the range of every number)
ExpVal(d) ==
    IF Len(StripZeros(d)) > 7 THEN 10^7 ELSE DecVal(StripZeros(d))

\* The exponent part at the head of rest (0 when there is none): e or E, a
\* sign and digits, 0 without a digit
ExpOf(rest) ==
    IF rest = <<>> \/ Head(rest) \notin {"e", "E"} THEN 0
    ELSE IF HasSign(Tail(rest)) /\ Head(Tail(rest)) = "-"
    THEN -ExpVal(DigitPrefix(Unsigned(Tail(rest))))
    ELSE ExpVal(DigitPrefix(Unsigned(Tail(rest))))

\* The decimal ip.fp e x: NaN without a digit before the exponent
FloatOfParts(t, ip, fp, rest) ==
    IF ip = <<>> /\ fp = <<>> THEN NaN
    ELSE WithSign(t, DecNumber(StripZeros(ip \o fp), ExpOf(rest) - Len(fp)))

InfinityWord == <<"I", "n", "f", "i", "n", "i", "t", "y">>

\* The value of the unsigned body of t, whose leading digits are ip
FloatOfBody(t, body, ip) ==
    IF Len(body) >= Len(InfinityWord) /\ SubSeq(body, 1, Len(InfinityWord)) = InfinityWord
    THEN WithSign(t, Inf(FALSE))
    ELSE FloatOfParts(t, ip, FracDigits(SubSeq(body, Len(ip) + 1, Len(body))),
                      AfterFrac(SubSeq(body, Len(ip) + 1, Len(body))))

\* parseFloat(s): leading white space, then the longest prefix that is a
\* decimal literal: an optional sign, then "Infinity" or digits, an optional
\* point and digits, and an optional exponent (e or E, an optional sign,
\* digits); NaN when there is no digit before the exponent.
parseFloat(s) ==
    FloatOfBody(TrimLeft(s), Unsigned(TrimLeft(s)), DigitPrefix(Unsigned(TrimLeft(s))))

\* The decimal digits of a natural number ("0" for 0), from its quotient by
\* 10 and its last digit
RECURSIVE BigToDecFrom(_)
BigToDecFrom(qr) ==
    IF qr[1] = <<>> THEN <<Digits[qr[2] + 1]>>
    ELSE BigToDecFrom(BigDivSmall(qr[1], 10)) \o <<Digits[qr[2] + 1]>>

\* n zeros
ZeroStr(n) == [i \in 1..n |-> "0"]

\* r + m+ reaches s
HighHit(even, r, mp, s) ==
    IF even THEN ~BigLt(BigAdd(r, mp), s) ELSE BigLt(s, BigAdd(r, mp))

\* r is within m- of 0
LowHit(even, r, mm) == IF even THEN ~BigLt(mm, r) ELSE BigLt(r, mm)

\* Scaling, st = <<r, s, m+, m-, k, more>>: s grows while x + m+ / s is 1 or
\* more (the last component tells whether it is)
UpState(even, r, s, mp, mm, k) == <<r, s, mp, mm, k, HighHit(even, r, mp, s)>>

\* The shortest digits that identify a finite x > 0 among the numbers.  x is
\* f * 2^e; r / s is x and m+ / s, m- / s are the halves of the gaps to the
\* next number above and below, scaled so that x = 0.d1 d2 ... * 10^k.  The
\* ends of the rounding interval count when f is even.  (The initial state
\* of the scaling.)
ShortInit(even, x, f) ==
    IF x.e >= 0
    THEN (IF x.hi = 2^24 /\ x.lo = 0
          THEN UpState(even, BigShl(f, x.e + 2), <<4>>, BigShl(<<1>>, x.e + 1), BigShl(<<1>>, x.e), 0)
          ELSE UpState(even, BigShl(f, x.e + 1), <<2>>, BigShl(<<1>>, x.e), BigShl(<<1>>, x.e), 0))
    ELSE IF x.e > MinExp /\ x.hi = 2^24 /\ x.lo = 0
    THEN UpState(even, BigShl(f, 2), BigShl(<<1>>, 2 - x.e), <<2>>, <<1>>, 0)
    ELSE UpState(even, BigShl(f, 1), BigShl(<<1>>, 1 - x.e), <<1>>, <<1>>, 0)

RECURSIVE ScaleUp(_, _, _)
ScaleUp(even, st, m) ==
    IF m = 0 \/ ~st[6] THEN st
    ELSE IF m = 1
    THEN UpState(even, st[1], BigMulSmall(st[2], 10), st[3], st[4], st[5] + 1)
    ELSE ScaleUp(even, ScaleUp(even, st, m \div 2), m - (m \div 2))

\* and r, m+, m- grow while ten times as much is still below 1
DownState(even, r, s, mp, mm, k) ==
    <<r, s, mp, mm, k, ~HighHit(even, BigMulSmall(r, 10), BigMulSmall(mp, 10), s)>>

RECURSIVE ScaleDown(_, _, _)
ScaleDown(even, st, m) ==
    IF m = 0 \/ ~st[6] THEN st
    ELSE IF m = 1
    THEN DownState(even, BigMulSmall(st[1], 10), st[2], BigMulSmall(st[3], 10),
                   BigMulSmall(st[4], 10), st[5] - 1)
    ELSE ScaleDown(even, ScaleDown(even, st, m \div 2), m - (m \div 2))

\* The scaled state from the initial one
ScaleFrom(even, up) ==
    ScaleDown(even, DownState(even, up[1], up[2], up[3], up[4], up[5]), 512)

\* <<floor(r / s), r % s>> for r < 10 s
RECURSIVE DivSub(_, _, _)
DivSub(r, s, d) == IF BigLt(r, s) THEN <<d, r>> ELSE DivSub(BigSub(r, s), s, d + 1)

\* The next digit qr[1], the last one when the digits so far identify x
\* (low: from below, high: from above after adding one to the digit).  When
\* both do, the nearer of the two is taken, and the even one when x is
\* halfway between them (2 * rem = s).
GenPick(s, qr, mp, mm, ds, low, high) ==
    IF ~low /\ ~high THEN <<qr[2], mp, mm, ds \o <<Digits[qr[1] + 1]>>, FALSE>>
    ELSE IF low /\ ~high THEN <<qr[2], mp, mm, ds \o <<Digits[qr[1] + 1]>>, TRUE>>
    ELSE IF high /\ ~low THEN <<qr[2], mp, mm, ds \o <<Digits[qr[1] + 2]>>, TRUE>>
    ELSE IF BigLt(BigMulSmall(qr[2], 2), s)
    THEN <<qr[2], mp, mm, ds \o <<Digits[qr[1] + 1]>>, TRUE>>
    ELSE IF BigLt(s, BigMulSmall(qr[2], 2))
    THEN <<qr[2], mp, mm, ds \o <<Digits[qr[1] + 2]>>, TRUE>>
    ELSE <<qr[2], mp, mm, ds \o <<Digits[qr[1] + 1 + (qr[1] % 2)]>>, TRUE>>

GenEmit(even, s, qr, mp, mm, ds) ==
    GenPick(s, qr, mp, mm, ds, LowHit(even, qr[2], mm), HighHit(even, qr[2], mp, s))

\* Digit generation, st = <<r, m+, m-, digits, done>>
GenStep(even, s, st) ==
    GenEmit(even, s, DivSub(BigMulSmall(st[1], 10), s, 0),
            BigMulSmall(st[2], 10), BigMulSmall(st[3], 10), st[4])

RECURSIVE GenRun(_, _, _, _)
GenRun(even, s, st, m) ==
    IF m = 0 \/ st[5] THEN st
    ELSE IF m = 1 THEN GenStep(even, s, st)
    ELSE GenRun(even, s, GenRun(even, s, st, m \div 2), m - (m \div 2))

\* The sign and digits of an exponent
ExpStr(n) == IF n < 0 THEN <<"-">> \o DecStr(-n) ELSE <<"+">> \o DecStr(n)

\* Number::toString for the digits ds and the position n of the point
PlaceDigits(ds, n) ==
    IF Len(ds) <= n /\ n <= 21 THEN ds \o ZeroStr(n - Len(ds))
    ELSE IF 0 < n /\ n <= 21
    THEN SubSeq(ds, 1, n) \o <<".">> \o SubSeq(ds, n + 1, Len(ds))
    ELSE IF 0 - 6 < n /\ n <= 0 THEN <<"0", ".">> \o ZeroStr(-n) \o ds
    ELSE IF Len(ds) = 1 THEN ds \o <<"e">> \o ExpStr(n - 1)
    ELSE <<ds[1], ".">> \o SubSeq(ds, 2, Len(ds)) \o <<"e">> \o ExpStr(n - 1)

\* The digits generated from the scaled state sc, placed
ShortFrom(even, sc) ==
    PlaceDigits(GenRun(even, sc[2], <<sc[1], sc[3], sc[4], <<>>, FALSE>>, 32)[4], sc[5])

\* The string of a finite x > 0: its shortest digits, placed
ShortDigits(x) ==
    ShortFrom(x.lo % 2 = 0,
              ScaleFrom(x.lo % 2 = 0,
                        ScaleUp(x.lo % 2 = 0,
                                ShortInit(x.lo % 2 = 0, x, BigOfPair(x.hi, x.lo)), 512)))

\* The string of a number, as string concatenation makes it
NumStr(x) ==
    IF isNaN(x) THEN <<"N", "a", "N">>
    ELSE IF IsZero(x) THEN <<"0">>
    ELSE IF IsInf(x) THEN (IF x.neg THEN <<"-">> ELSE <<>>) \o InfinityWord
    ELSE (IF x.neg THEN <<"-">> ELSE <<>>) \o ShortDigits(x)

\* The digits d of a number of hundredths written with two decimals (three
\* digits at least: zeros are put before fewer)
RECURSIVE Fixed2Digits(_)
Fixed2Digits(d) ==
    IF Len(d) < 3 THEN Fixed2Digits(ZeroStr(3 - Len(d)) \o d)
    ELSE SubSeq(d, 1, Len(d) - 2) \o <<".">> \o SubSeq(d, Len(d) - 1, Len(d))

\* floor(|x| * 200) for a finite x
Floor200(x) ==
    IF x.e >= 0 THEN BigShl(BigMulSmall(BigOfPair(x.hi, x.lo), 200), x.e)
    ELSE BigShr(BigMulSmall(BigOfPair(x.hi, x.lo), 200), -x.e)

\* Number.prototype.toFixed(2): the integer n with n / 100 nearest to x (the
\* larger n on a tie), written with two decimals; the sign is kept for any
\* x < 0, also when n is 0.  From 10^21 on the number is written as NumStr
\* writes it.
toFixed2(x) ==
    IF isNaN(x) \/ IsInf(x) THEN NumStr(x)
    ELSE IF ~MagLt(x, DecNumber(<<"1">>, 21)) THEN NumStr(x)
    ELSE (IF x.neg /\ ~IsZero(x) THEN <<"-">> ELSE <<>>)
           \o Fixed2Digits(BigToDecFrom(
                              BigDivSmall(BigShr(BigCarry(Floor200(x), 1), 1), 10)))

\* h * 2^28 + l shifted right by d bits, and whether no bit is lost
ShrFloor(h, l, d) ==
    IF d = 0 THEN <<h, l>>
    ELSE IF d < 28 THEN <<h \div 2^d, (h % 2^d) * 2^(28 - d) + (l \div 2^d)>>
    ELSE IF d < 56 THEN <<0, h \div 2^(d - 28)>>
    ELSE <<0, 0>>

LowZero(h, l, d) ==
    IF d = 0 THEN TRUE
    ELSE IF d < 28 THEN l % 2^d = 0
    ELSE IF d < 56 THEN l = 0 /\ h % 2^(d - 28) = 0
    ELSE h = 0 /\ l = 0

\* floor((t + c) / 2) for the pair t and c = 0 or 1
HalfOf(t, c) ==
    IF t[2] + c = B28 THEN <<(t[1] + 1) \div 2, ((t[1] + 1) % 2) * 2^27>>
    ELSE <<t[1] \div 2, (t[1] % 2) * 2^27 + ((t[2] + c) \div 2)>>

\* The whole number of magnitude r[1] * 2^28 + r[2] (a zero keeps the sign)
WholeNumber(neg, r) ==
    IF r[1] = 0 /\ r[2] = 0 THEN Zero(neg) ELSE Normalize(neg, r[1], r[2], 0)

\* floor(x + 1/2) from t = floor(2 |x|): a tie goes up
RoundFrom(x, t) ==
    WholeNumber(x.neg,
                HalfOf(t, IF x.neg /\ LowZero(x.hi, x.lo, (-x.e) - 1) THEN 0 ELSE 1))

\* Math.round(x): floor(x + 1/2) computed exactly; NaN, the infinities, the
\* zeros and the numbers without fraction bits are returned as they are.
MathRound(x) ==
    IF isNaN(x) \/ IsInf(x) \/ IsZero(x) THEN x
    ELSE IF x.e >= 0 THEN x
    ELSE RoundFrom(x, ShrFloor(x.hi, x.lo, (-x.e) - 1))


(***************************************************************************)
(* The program's pure functions                                            *)
(***************************************************************************)
MaxDigits == 4
MinutesPerHour == 60
MaxHour == 23
MaxMinute == 59
HoursPerDay == 24
NightStartHour == 22
NightEndHour == 5

\* timeStep = 0.25
timeStep == FDiv(FromNat(1), FromNat(4))

\* the night premium 1.25
NightRate == FDiv(FromNat(5), FromNat(4))

\* the numbers the program compares with
F0 == Zero(FALSE)
FHoursPerDay == FromNat(HoursPerDay)
FNightStart == FromNat(NightStartHour)
FNightEnd == FromNat(NightEndHour)

\* currentValue.replace(/[^\d]/g, '')
RECURSIVE StripNonDigits(_)
StripNonDigits(s) ==
    IF s = <<>> THEN <<>>
    ELSE IF IsDigit(Head(s)) THEN <<Head(s)>> \o StripNonDigits(Tail(s))
    ELSE StripNonDigits(Tail(s))

\* s.substring(a, b) with 0 <= a <= b (b is clamped to the length)
substring(s, a, b) ==
    SubSeq(s, a + 1, IF b < Len(s) THEN b ELSE Len(s))

\* formatTimeInput: from the element's value (and selectionStart, which is
\* read and not used) to its new value and cursor position.
formatTimeInput(currentValue, currentCursorPosition) ==
    LET stripped    == StripNonDigits(currentValue)
        onlyNumbers == IF Len(stripped) > MaxDigits
                       THEN substring(stripped, 0, MaxDigits) ELSE stripped
        formattedTime ==
            IF Len(onlyNumbers) >= 2
            THEN substring(onlyNumbers, 0, 2) \o <<":">> \o substring(onlyNumbers, 2, 4)
            ELSE onlyNumbers
        newCursorPosition ==
            IF Len(onlyNumbers) = 0 THEN 0
            ELSE IF Len(onlyNumbers) <= 2 THEN Len(onlyNumbers)
            ELSE IF Len(onlyNumbers) + 1 < Len(formattedTime)
                 THEN Len(onlyNumbers) + 1 ELSE Len(formattedTime)
    IN  [value |-> formattedTime, cursor |-> newCursorPosition]

\* timeToDecimal, from the parsed hours and minutes on
DecimalOf(hours, minutes) ==
    IF isNaN(hours) \/ isNaN(minutes)
       \/ FLt(hours, F0) \/ FGt(hours, FromNat(MaxHour))
       \/ FLt(minutes, F0) \/ FGt(minutes, FromNat(MaxMinute))
    THEN NaN
    ELSE FAdd(hours, FDiv(minutes, FromNat(MinutesPerHour)))

\* timeToDecimal, from the split string on
DecimalOfParts(timeParts) ==
    IF Len(timeParts) # 2 THEN NaN
    ELSE DecimalOf(parseInt(timeParts[1]), parseInt(timeParts[2]))

timeToDecimal(timeString) == DecimalOfParts(split(timeString, ":"))

\* Variant of validateTimeFormat: the hour 24 is let through.
validateTimeFormatTo24(timeString) ==
    /\ Len(timeString) = 5
    /\ \/ timeString[1] \in {"0", "1"} /\ IsDigit(timeString[2])
       \/ timeString[1] = "2" /\ timeString[2] \in {"0", "1", "2", "3", "4"}
    /\ timeString[3] = ":"
    /\ timeString[4] \in {"0", "1", "2", "3", "4", "5"}
    /\ IsDigit(timeString[5])

\* validateTimeFormat: /^([0-1][0-9]|2[0-3]):[0-5][0-9]$/ (no flags, so ^ and
\* $ are the ends of the string)
validateTimeFormat(timeString) ==
    /\ Len(timeString) = 5
    /\ \/ timeString[1] \in {"0", "1"} /\ IsDigit(timeString[2])
       \/ timeString[1] = "2" /\ timeString[2] \in {"0", "1", "2", "3"}
    /\ timeString[3] = ":"
    /\ timeString[4] \in {"0", "1", "2", "3", "4", "5"}
    /\ IsDigit(timeString[5])

\* Variant of totalHoursOf: equal times are taken for a shift of a whole day.
totalHoursWholeDay(startTimeDecimal, endTimeDecimal) ==
    IF FGt(endTimeDecimal, startTimeDecimal)
    THEN FSub(endTimeDecimal, startTimeDecimal)
    ELSE FAdd(FSub(FHoursPerDay, startTimeDecimal), endTimeDecimal)

\* Step 6: total working hours
totalHoursOf(startTimeDecimal, endTimeDecimal) ==
    IF FGe(endTimeDecimal, startTimeDecimal)
    THEN FSub(endTimeDecimal, startTimeDecimal)
    ELSE FAdd(FSub(FHoursPerDay, startTimeDecimal), endTimeDecimal)

\* x % 24 for 0 <= x < 48 (the remainder is exact)
Mod24(x) ==
    IF FGe(x, FHoursPerDay) THEN FSub(x, FHoursPerDay) ELSE x

\* Variant of IsNightSample: the sample at 22:00 itself is counted as day.
IsNightSampleAfter(currentHour) ==
    FGt(currentHour, FNightStart) \/ FLt(currentHour, FNightEnd)

\* the test of the loop body: 22:00 or later, or before 05:00
IsNightSample(currentHour) ==
    FGe(currentHour, FNightStart) \/ FLt(currentHour, FNightEnd)

\* Variant of loopTest: the bucket starting at totalHours is visited too.
loopTestInclusive(st, totalHours) == FLe(st.currentTime, totalHours)

\* Step 7: the loop.  st is the loop's state: currentTime, nightHours and the
\* number of iterations done.
loopTest(st, totalHours) == FLt(st.currentTime, totalHours)

loopBody(st, startTimeDecimal) ==
    LET currentHour == Mod24(FAdd(startTimeDecimal, st.currentTime))
    IN  [currentTime |-> FAdd(st.currentTime, timeStep),
         nightHours  |-> IF IsNightSample(currentHour)
                         THEN FAdd(st.nightHours, timeStep) ELSE st.nightHours,
         iterations  |-> st.iterations + 1]

\* At most n iterations of the loop from st, stopping when the test fails (n
\* is split in halves, which bounds the depth of the evaluation).
RECURSIVE loopRun(_, _, _, _)
loopRun(st, n, startTimeDecimal, totalHours) ==
    IF n = 0 \/ ~loopTest(st, totalHours) THEN st
    ELSE IF n = 1 THEN loopBody(st, startTimeDecimal)
    ELSE loopRun(loopRun(st, n \div 2, startTimeDecimal, totalHours),
                 n - (n \div 2), startTimeDecimal, totalHours)

\* The loop run to its exit, 128 iterations at a time.
RECURSIVE nightSweep(_, _, _)
nightSweep(st, startTimeDecimal, totalHours) ==
    IF ~loopTest(st, totalHours) THEN st
    ELSE nightSweep(loopRun(st, 128, startTimeDecimal, totalHours),
                    startTimeDecimal, totalHours)

\* Step 8: normal hours
normalHoursOf(totalHours, nightHours) == FSub(totalHours, nightHours)

\* Step 9: wages
totalPayOf(normalHours, nightHours, baseWage) ==
    LET normalPay == FMul(normalHours, baseWage)
        nightPay  == FMul(FMul(nightHours, baseWage), NightRate)
    IN  FAdd(normalPay, nightPay)

\* Variant of roundedPay: the pay is cut to whole units.
roundedPayDown(totalPay) ==
    IF isNaN(totalPay) \/ IsInf(totalPay) \/ IsZero(totalPay) THEN totalPay
    ELSE IF totalPay.e >= 0 THEN totalPay
    ELSE WholeNumber(totalPay.neg, ShrFloor(totalPay.hi, totalPay.lo, -totalPay.e))

\* Step 10: Math.round(totalPay), the pay shown
roundedPay(totalPay) == MathRound(totalPay)

\* The three computed parts of resultElement.innerHTML, between its fixed labels
resultParts(loc) ==
    <<toFixed2(loc.normalHours), toFixed2(loc.nightHours), NumStr(roundedPay(loc.totalPay))>>

\* What a run of calculateWage that stops at an alert returns
stop(msg) == [alert |-> msg, wrote |-> FALSE, locals |-> <<>>]

\* The loop's state before its first iteration
loopStart == [currentTime |-> F0, nightHours |-> F0, iterations |-> 0]

\* Steps 8 to 10, from the loop's exit state: the locals of the run
wageStep8(baseWage, startTimeDecimal, endTimeDecimal, totalHours, sweep) ==
    [alert |-> "none", wrote |-> TRUE,
     locals |-> <<[startTimeDecimal |-> startTimeDecimal,
                   endTimeDecimal   |-> endTimeDecimal,
                   baseWage         |-> baseWage,
                   totalHours       |-> totalHours,
                   nightHours       |-> sweep.nightHours,
                   iterations       |-> sweep.iterations,
                   normalHours      |-> normalHoursOf(totalHours, sweep.nightHours),
                   totalPay         |-> totalPayOf(normalHoursOf(totalHours, sweep.nightHours),
                                                   sweep.nightHours, baseWage)]>>]

\* Step 7: the sweep from the loop's initial state
wageStep6(baseWage, startTimeDecimal, endTimeDecimal, totalHours) ==
    wageStep8(baseWage, startTimeDecimal, endTimeDecimal, totalHours,
              nightSweep(loopStart, startTimeDecimal, totalHours))

\* Steps 5 and 6: the converted times, the NaN check, the total hours
wageStep5(baseWage, startTimeDecimal, endTimeDecimal) ==
    IF isNaN(startTimeDecimal) \/ isNaN(endTimeDecimal) THEN stop("time")
    ELSE wageStep6(baseWage, startTimeDecimal, endTimeDecimal,
                   totalHoursOf(startTimeDecimal, endTimeDecimal))

\* Variant of wageStep3: the wage is checked before the times.
wageStep3WageFirst(baseWage, startTimeInput, endTimeInput) ==
    IF isNaN(baseWage) \/ FLe(baseWage, F0)
    THEN stop("rate")
    ELSE IF ~validateTimeFormat(startTimeInput) \/ ~validateTimeFormat(endTimeInput)
    THEN stop("time-format")
    ELSE wageStep5(baseWage, timeToDecimal(startTimeInput), timeToDecimal(endTimeInput))

\* Variant of wageStep3: a wage of zero is let through.
wageStep3ZeroPasses(baseWage, startTimeInput, endTimeInput) ==
    IF ~validateTimeFormat(startTimeInput) \/ ~validateTimeFormat(endTimeInput)
    THEN stop("time-format")
    ELSE IF isNaN(baseWage) \/ FLt(baseWage, F0)
    THEN stop("rate")
    ELSE wageStep5(baseWage, timeToDecimal(startTimeInput), timeToDecimal(endTimeInput))

\* Steps 3 and 4: the time-format check, then the wage check
wageStep3(baseWage, startTimeInput, endTimeInput) ==
    IF ~validateTimeFormat(startTimeInput) \/ ~validateTimeFormat(endTimeInput)
    THEN stop("time-format")
    ELSE IF isNaN(baseWage) \/ FLe(baseWage, F0)
    THEN stop("rate")
    ELSE wageStep5(baseWage, timeToDecimal(startTimeInput), timeToDecimal(endTimeInput))

\* calculateWage, from the three field values: the alert it shows ("none" when
\* it shows none), whether it wrote the result, and the locals it computed.
calculateWage(baseWageInput, startTimeValue, endTimeValue) ==
    wageStep3(parseFloat(baseWageInput), trim(startTimeValue), trim(endTimeValue))

(***************************************************************************)
(* The page: the three input fields, the two time fields' cursors and      *)
(* pending timers, the result element, and what the handlers last did      *)
(***************************************************************************)
VARIABLES
    value,    \* value[id]: the value of the input element id
    cursor,   \* cursor[id]: selectionStart of the time field id
    timers,   \* timers[id]: setTimeout callbacks pending for the time field id
    result,   \* the computed parts of #result's innerHTML (<<>>: never written)
    alert,    \* the alert shown by the last run of calculateWage, or "none"
    calc,     \* <<locals>> of the last run of calculateWage that computed (else <<>>)
    fmt       \* <<what the last run of formatTimeInput read and wrote>> (else <<>>)

vars == <<value, cursor, timers, result, alert, calc, fmt>>

\* the bound on the deferred calls pending for one field
MaxTimers == 1

TimeFields == {"startTime", "endTime"}

Fields == {"baseWage"} \cup TimeFields

NoCursor == [f \in TimeFields |-> 0]

\* the button's click handler: one run r of calculateWage on the fields
CalculateWage ==
    \E r \in {calculateWage(value["baseWage"], value["startTime"], value["endTime"])} :
        /\ alert' = r.alert
        /\ calc' = IF r.wrote THEN r.locals ELSE calc
        /\ result' = IF r.wrote THEN resultParts(r.locals[1]) ELSE result
        /\ UNCHANGED <<value, cursor, timers, fmt>>

\* formatTimeInput(el): the element's value and cursor are rewritten
Format(el, v, c) ==
    \E r \in {formatTimeInput(v, c)} :
        /\ value' = [value EXCEPT ![el] = r.value]
        /\ cursor' = [cursor EXCEPT ![el] = r.cursor]
        /\ fmt' = <<[el |-> el, inValue |-> v, inCursor |-> c,
                     outValue |-> r.value, outCursor |-> r.cursor]>>

\* s with the text t inserted at position c
InsertAt(s, c, t) == SubSeq(s, 1, c) \o t \o SubSeq(s, c + 1, Len(s))

\* s without its character number c
RemoveAt(s, c) == SubSeq(s, 1, c - 1) \o SubSeq(s, c + 1, Len(s))

\* The user types the character ch: the browser inserts it at the cursor and
\* fires 'input', whose listener formats the field.
TypeChar(el, ch) ==
    /\ Format(el, InsertAt(value[el], cursor[el], <<ch>>), cursor[el] + 1)
    /\ UNCHANGED <<timers, result, alert, calc>>

\* Backspace: the keydown listener defers a formatTimeInput; the browser then
\* deletes the character before the cursor, if any, and fires 'input'.
Backspace(el) ==
    /\ timers[el] < MaxTimers
    /\ timers' = [timers EXCEPT ![el] = @ + 1]
    /\ IF cursor[el] > 0
       THEN Format(el, RemoveAt(value[el], cursor[el]), cursor[el] - 1)
       ELSE UNCHANGED <<value, cursor, fmt>>
    /\ UNCHANGED <<result, alert, calc>>

\* Delete: as Backspace, for the character after the cursor.
Delete(el) ==
    /\ timers[el] < MaxTimers
    /\ timers' = [timers EXCEPT ![el] = @ + 1]
    /\ IF cursor[el] < Len(value[el])
       THEN Format(el, RemoveAt(value[el], cursor[el] + 1), cursor[el])
       ELSE UNCHANGED <<value, cursor, fmt>>
    /\ UNCHANGED <<result, alert, calc>>

\* Paste: the paste listener defers a formatTimeInput; the browser then
\* inserts the text at the cursor and fires 'input'.
Paste(el, text) ==
    /\ timers[el] < MaxTimers
    /\ timers' = [timers EXCEPT ![el] = @ + 1]
    /\ Format(el, InsertAt(value[el], cursor[el], text), cursor[el] + Len(text))
    /\ UNCHANGED <<result, alert, calc>>

\* A deferred formatTimeInput runs.
TimerFires(el) ==
    /\ timers[el] > 0
    /\ timers' = [timers EXCEPT ![el] = @ - 1]
    /\ Format(el, value[el], cursor[el])
    /\ UNCHANGED <<result, alert, calc>>

\* The user moves the cursor (arrow keys, a click): no listener runs.
MoveCursor(el, c) ==
    /\ c <= Len(value[el])
    /\ c # cursor[el]
    /\ cursor' = [cursor EXCEPT ![el] = c]
    /\ UNCHANGED <<value, timers, result, alert, calc, fmt>>

\* A field is given a new value without a listener running (the wage field
\* has none; a time field set by autofill or a script).
SetField(id, v) ==
    /\ v # value[id]
    /\ value' = [value EXCEPT ![id] = v]
    /\ cursor' = IF id \in TimeFields THEN [cursor EXCEPT ![id] = Len(v)] ELSE cursor
    /\ UNCHANGED <<timers, result, alert, calc, fmt>>


(***************************************************************************)
(* Inputs and specifications                                               *)
(***************************************************************************)
MaxLen == 5

Str1000 == <<"1", "0", "0", "0">>

\* "HH:MM" for hour h and minute m
TimeStr(h, m) ==
    <<Digits[(h \div 10) + 1], Digits[(h % 10) + 1], ":",
      Digits[(m \div 10) + 1], Digits[(m % 10) + 1]>>

ShiftTimes ==
    {TimeStr(h, m) : h \in {0, 4, 5, 6, 9, 17, 20, 21, 22, 23}, m \in {0, 5, 15, 45, 50}}

\* Spec: one click on the button, for every shift of the sample and every wage.
Init ==
    /\ value \in {[baseWage |-> w, startTime |-> s, endTime |-> e] :
                     w \in {Str1000}, s \in ShiftTimes, e \in ShiftTimes}
    /\ cursor = NoCursor
    /\ timers = NoCursor
    /\ result = <<>>
    /\ alert = "none"
    /\ calc = <<>>
    /\ fmt = <<>>

Next == CalculateWage

Spec == Init /\ [][Next]_vars

\* SpecSession: from the page as loaded, the fields are set to valid and
\* invalid values and the button is clicked, any number of times.
SessionTimes ==
    {TimeStr(9, 0), <<"U+3000", " ", "1", "7", ":", "0", "0", "">>,
     <<"9", ":", "0", "0">>, <<"2", "4", ":", "0", "0">>}

SessionWages ==
    {Str1000, <<"0">>, <<"-", "5">>, <<"a", "b", "c">>, <<"1", "2", "a">>,
     <<"", "1", "e", "3">>, <<"I", "n", "f", "i", "n", "i", "t", "y">>}

InitPage ==
    /\ value = [f \in Fields |-> <<>>]
    /\ cursor = NoCursor
    /\ timers = NoCursor
    /\ result = <<>>
    /\ alert = "none"
    /\ calc = <<>>
    /\ fmt = <<>>

NextSession ==
    \/ CalculateWage
    \/ \E v \in SessionWages : SetField("baseWage", v)
    \/ \E el \in TimeFields, v \in SessionTimes : SetField(el, v)

SpecSession == InitPage /\ [][NextSession]_vars

\* SpecPay: one click, for a few shifts and wages of every size: with an
\* exponent, with a fraction, below 1, so large that the pay has no fraction
\* bits left, is written with an exponent, or overflows.
PayTimes == {TimeStr(9, 0), TimeStr(17, 0), TimeStr(22, 0), TimeStr(22, 5), TimeStr(22, 15)}

PayWages ==
    {Str1000, <<"1", "e", "3">>, <<"1", "0", "1", "3", ".", "5">>, <<"2", "e", "-", "1">>,
     <<"9", "e", "1", "5">>, <<"1", "E", "2", "1">>, <<"1", "e", "3", "0", "8">>}

InitPay ==
    /\ value \in {[baseWage |-> w, startTime |-> s, endTime |-> e] :
                     w \in PayWages, s \in PayTimes, e \in PayTimes}
    /\ cursor = NoCursor
    /\ timers = NoCursor
    /\ result = <<>>
    /\ alert = "none"
    /\ calc = <<>>
    /\ fmt = <<>>

SpecPay == InitPay /\ [][Next]_vars

\* SpecParse: one click, one time field holding any string of at most MaxLen
\* characters of TimeAlphabet and the other a valid time.
TimeAlphabet == {"0", "2", "4", "6", ":", "a", " "}

InitParse ==
    /\ \E el \in TimeFields, t \in UNION {[1..k -> TimeAlphabet] : k \in 0..MaxLen} :
          value = [[baseWage |-> Str1000, startTime |-> TimeStr(22, 0),
                    endTime |-> TimeStr(22, 0)] EXCEPT ![el] = t]
    /\ cursor = NoCursor
    /\ timers = NoCursor
    /\ result = <<>>
    /\ alert = "none"
    /\ calc = <<>>
    /\ fmt = <<>>

SpecParse == InitParse /\ [][Next]_vars

\* SpecInput: from the page as loaded, the user types, deletes, pastes and
\* moves the cursor in a time field, and the deferred calls run.  The user
\* edits one field at a time: the other one is as the page loaded it.
Editing(el) ==
    \A other \in TimeFields \ {el} :
        value[other] = <<>> /\ cursor[other] = 0 /\ timers[other] = 0

NextInput ==
    \/ \E el \in TimeFields, ch \in {"1", "2", "a"} : Editing(el) /\ TypeChar(el, ch)
    \/ \E el \in TimeFields : Editing(el) /\ Backspace(el)
    \/ \E el \in TimeFields : Editing(el) /\ Delete(el)
    \/ \E el \in TimeFields, t \in {<<"3", ":", "4">>} : Editing(el) /\ Paste(el, t)
    \/ \E el \in TimeFields : Editing(el) /\ TimerFires(el)
    \/ \E el \in TimeFields, c \in 0..(MaxDigits + 1) : Editing(el) /\ MoveCursor(el, c)

SpecInput == InitPage /\ [][NextInput]_vars

(***************************************************************************)
(* Properties.  The times of a shift are read off the fields in whole      *)
(* minutes, and what the program computed is compared with exact integer   *)
(* arithmetic on them.                                                      *)
(***************************************************************************)
\* "HH:MM" with an hour 00..23 and a minute 00..59, by the value of its digits
WellFormedTime(t) ==
    /\ Len(t) = 5
    /\ IsDigit(t[1]) /\ IsDigit(t[2]) /\ t[3] = ":" /\ IsDigit(t[4]) /\ IsDigit(t[5])
    /\ DigitVal(t[1]) * 10 + DigitVal(t[2]) <= 23
    /\ DigitVal(t[4]) * 10 + DigitVal(t[5]) <= 59

HourOf(t) == DigitVal(t[1]) * 10 + DigitVal(t[2])

MinuteOf(t) == DigitVal(t[4]) * 10 + DigitVal(t[5])

MinuteOfDay(t) == 60 * HourOf(t) + MinuteOf(t)

StartStr == trim(value["startTime"])

EndStr == trim(value["endTime"])

\* The button was clicked and the run computed a result from the fields
Computed == calc # <<>> /\ WellFormedTime(StartStr) /\ WellFormedTime(EndStr)

\* The shift of the fields, in minutes: its start and its length
StartMinute == MinuteOfDay(StartStr)

ShiftMinutes == (MinuteOfDay(EndStr) - MinuteOfDay(StartStr)) % 1440

Max(a, b) == IF a > b THEN a ELSE b

Min(a, b) == IF a < b THEN a ELSE b

\* The length of the intersection of [a, b) and [lo, hi)
Overlap(a, b, lo, hi) == Max(0, Min(b, hi) - Max(a, lo))

\* The minutes of [a, b), 0 <= a < 1440 and b - a < 1440, at an hour of day
\* >= 22 or < 5: the night windows that can meet it are [0, 300),
\* [1320, 1740) and [2760, 3180).
NightMinutes(a, b) ==
    Overlap(a, b, 0, 300) + Overlap(a, b, 1320, 1740) + Overlap(a, b, 2760, 3180)

\* The hours that are n minutes (exact when n is a multiple of 15)
HoursOfMinutes(n) == FDiv(FromNat(n), FromNat(60))

OnQuarter(t) == MinuteOf(t) % 15 = 0

\* C1: for valid times and a valid rate, the computed normalHours + nightHours
\* equals totalHours exactly.
C1_SumIsTotal ==
    Computed =>
        FEq(FAdd(calc[1].normalHours, calc[1].nightHours), calc[1].totalHours)

\* C2: for valid times at any minute, 0 <= nightHours <= totalHours, so that
\* nightHours and normalHours are both non-negative.
C2_NightWithinTotal ==
    Computed =>
        /\ FGe(calc[1].nightHours, F0)
        /\ FLe(calc[1].nightHours, calc[1].totalHours)
        /\ FGe(calc[1].normalHours, F0)

\* C3: for a shift whose times are both on a 15-minute boundary, nightHours is
\* the exact length of the overlap of the shift with the night window (hour of
\* day >= 22 or < 5) and normalHours is the rest; 20:00-23:00 gives normal
\* 2.00, night 1.00 and pay 3250, 23:00-04:00 gives night 5.00, 09:00-17:00
\* gives night 0.00.
C3_QuarterShiftsSplitExactly ==
    (Computed /\ OnQuarter(StartStr) /\ OnQuarter(EndStr)) =>
        /\ calc[1].nightHours =
              HoursOfMinutes(NightMinutes(StartMinute, StartMinute + ShiftMinutes))
        /\ calc[1].normalHours =
              HoursOfMinutes(ShiftMinutes
                             - NightMinutes(StartMinute, StartMinute + ShiftMinutes))
        /\ (StartStr = TimeStr(20, 0) /\ EndStr = TimeStr(23, 0) /\ value["baseWage"] = Str1000)
              => result = <<<<"2", ".", "0", "0">>, <<"1", ".", "0", "0">>,
                            <<"3", "2", "5", "0">>>>
        /\ (StartStr = TimeStr(23, 0) /\ EndStr = TimeStr(4, 0) /\ value["baseWage"] = Str1000)
              => result = <<<<"0", ".", "0", "0">>, <<"5", ".", "0", "0">>,
                            <<"6", "2", "5", "0">>>>
        /\ (StartStr = TimeStr(9, 0) /\ EndStr = TimeStr(17, 0) /\ value["baseWage"] = Str1000)
              => result = <<<<"8", ".", "0", "0">>, <<"0", ".", "0", "0">>,
                            <<"8", "0", "0", "0">>>>

\* A shift straddling 22:00 was computed and split at that boundary
C3_Witness ==
    /\ Computed
    /\ StartStr = TimeStr(20, 0) /\ EndStr = TimeStr(23, 0)
    /\ calc[1].normalHours = FromNat(2)
    /\ calc[1].nightHours = FromNat(1)

\* 1/2
Half == FDiv(FromNat(1), FromNat(2))

\* 2^52: from there on a number has no fraction bits
Two52 == Num(FALSE, 2^24, 0, 0)

\* C4: for a valid rate, the pay shown is totalPay = normalHours * rate +
\* nightHours * rate * 1.25 rounded to the nearest whole unit, halves up, and
\* the unrounded value is not shown: below 2^52 the pay is shown as digits
\* only, and the integer n they write has n - 1/2 <= totalPay < n + 1/2; from
\* 2^52 on totalPay is whole (or has overflowed) and what is shown reads back
\* as totalPay itself.
C4_PayRoundedHalfUp ==
    Computed =>
        /\ calc[1].totalPay =
              FAdd(FMul(calc[1].normalHours, calc[1].baseWage),
                   FMul(FMul(calc[1].nightHours, calc[1].baseWage), NightRate))
        /\ Len(result) = 3
        /\ result[3] # <<>>
        /\ IF FLt(calc[1].totalPay, Two52)
           THEN /\ \A i \in 1..Len(result[3]) : IsDigit(result[3][i])
                /\ FLe(FSub(parseFloat(result[3]), Half), calc[1].totalPay)
                /\ FLt(calc[1].totalPay, FAdd(parseFloat(result[3]), Half))
           ELSE FEq(parseFloat(result[3]), calc[1].totalPay)

\* A pay of 312.5 (a quarter of an hour at night, at 1000) was shown as 313
C4_Witness ==
    /\ Computed
    /\ StartStr = TimeStr(22, 0) /\ EndStr = TimeStr(22, 15)
    /\ calc[1].totalPay = FDiv(FromNat(625), FromNat(2))
    /\ result[3] = <<"3", "1", "3">>

\* C5: the duration is end - start when end >= start and (24 - start) + end
\* otherwise, and lies in [0, 24); equal times give totalHours 0 (not 24), no
\* iteration of the sweep, nightHours 0 and a pay of 0; 22:00-06:00 gives 8.
C5_DurationWraps ==
    Computed =>
        /\ FGe(calc[1].totalHours, F0)
        /\ FLt(calc[1].totalHours, FromNat(24))
        /\ MinuteOfDay(EndStr) >= MinuteOfDay(StartStr)
              => calc[1].totalHours =
                    FSub(calc[1].endTimeDecimal, calc[1].startTimeDecimal)
        /\ MinuteOfDay(EndStr) < MinuteOfDay(StartStr)
              => calc[1].totalHours =
                    FAdd(FSub(FromNat(24), calc[1].startTimeDecimal),
                         calc[1].endTimeDecimal)
        /\ StartStr = EndStr
              => /\ IsZero(calc[1].totalHours)
                 /\ calc[1].iterations = 0
                 /\ IsZero(calc[1].nightHours)
                 /\ IsZero(calc[1].totalPay)
                 /\ result = <<<<"0", ".", "0", "0">>, <<"0", ".", "0", "0">>, <<"0">>>>
        /\ (StartStr = TimeStr(22, 0) /\ EndStr = TimeStr(6, 0))
              => calc[1].totalHours = FromNat(8)

\* A shift that starts and ends at 22:00 was computed: no hours, no pay
C5_Witness ==
    /\ Computed
    /\ StartStr = TimeStr(22, 0) /\ EndStr = TimeStr(22, 0)
    /\ IsZero(calc[1].totalHours)
    /\ result[3] = <<"0">>

\* ceil(x / 0.25) for a number x >= 0, computed exactly
CeilQuarters(x) ==
    IF IsZero(x) THEN 0
    ELSE ShrFloor(x.hi, x.lo, (-x.e) - 2)[2]
           + (IF LowZero(x.hi, x.lo, (-x.e) - 2) THEN 0 ELSE 1)

\* The bucket offsets 0, 0.25, ... below the duration whose start sample, in
\* exact minutes of the day, is at an hour >= 22 or < 5
NightBuckets(n) ==
    {k \in 0..(n - 1) : (StartMinute + 15 * k) % 1440 >= 1320
                        \/ (StartMinute + 15 * k) % 1440 < 300}

\* C9: the sweep ends after exactly ceil(totalHours / 0.25) iterations, never
\* more than 96, and nightHours is 0.25 times the number of bucket offsets
\* t < totalHours whose start sample (start + t) mod 24 is >= 22 or < 5, each
\* bucket counted whole or not at all; 21:50-22:05 counts 0 night hours.
C9_SweepCountsWholeBuckets ==
    Computed =>
        /\ calc[1].iterations = CeilQuarters(calc[1].totalHours)
        /\ calc[1].iterations <= 96
        /\ calc[1].nightHours =
              FDiv(FromNat(Cardinality(NightBuckets(calc[1].iterations))), FromNat(4))
        /\ (StartStr = TimeStr(21, 50) /\ EndStr = TimeStr(22, 5))
              => IsZero(calc[1].nightHours)

\* The shift 21:50-22:05 was swept: one bucket, starting at 21:50, not night
C9_Witness ==
    /\ Computed
    /\ StartStr = TimeStr(21, 50) /\ EndStr = TimeStr(22, 5)
    /\ calc[1].iterations = 1
    /\ IsZero(calc[1].nightHours)

\* The button was clicked (under Spec and SpecParse the fields never change)
Clicked == alert # "none" \/ calc # <<>>

\* C6: validateTimeFormat accepts exactly the five-character strings HH:MM
\* with an hour 00..23 and a minute 00..59; for every accepted string
\* timeToDecimal is hour + minute / 60 and not NaN, so that calculateWage
\* never shows the alert of its isNaN check.
C6_ValidationIsExact ==
    /\ \A el \in TimeFields :
          /\ validateTimeFormat(value[el]) <=> WellFormedTime(value[el])
          /\ validateTimeFormat(trim(value[el])) <=> WellFormedTime(trim(value[el]))
          /\ WellFormedTime(value[el]) =>
                /\ ~isNaN(timeToDecimal(value[el]))
                /\ timeToDecimal(value[el]) =
                      FAdd(FromNat(HourOf(value[el])),
                           FDiv(FromNat(MinuteOf(value[el])), FromNat(60)))
    /\ alert # "time"
    /\ Clicked =>
          (alert = "time-format" <=> ~(WellFormedTime(StartStr) /\ WellFormedTime(EndStr)))
    /\ calc # <<>> =>
          /\ WellFormedTime(StartStr) /\ WellFormedTime(EndStr)
          /\ calc[1].startTimeDecimal =
                FAdd(FromNat(HourOf(StartStr)),
                     FDiv(FromNat(MinuteOf(StartStr)), FromNat(60)))
          /\ calc[1].endTimeDecimal =
                FAdd(FromNat(HourOf(EndStr)),
                     FDiv(FromNat(MinuteOf(EndStr)), FromNat(60)))

\* The string 20:46 was accepted and converted to 20 + 46/60
C6_Witness ==
    /\ value["startTime"] = TimeStr(20, 46)
    /\ calc # <<>>
    /\ alert = "none"
    /\ calc[1].startTimeDecimal = FAdd(FromNat(20), FDiv(FromNat(46), FromNat(60)))

\* The wage field does not parse as a number, or parses to a value <= 0
BadWage(s) == isNaN(parseFloat(s)) \/ FLe(parseFloat(s), F0)

\* wage inputs that are empty, zero, negative and not numeric
RejectedWages == {<<>>, <<"0">>, <<"-", "5">>, <<"a", "b", "c">>}

\* C7: when the start or the end string fails the HH:MM validation, a click
\* shows the time-format alert whatever the wage field holds, and computes and
\* displays nothing: the result and the computed values are left as they were.
C7_TimeCheckComesFirst ==
    [][(CalculateWage /\ ~(WellFormedTime(StartStr) /\ WellFormedTime(EndStr)))
          => (alert' = "time-format" /\ result' = result /\ calc' = calc)]_vars

\* The time-format alert was shown for a wage of zero and an ill-formed start
\* time, over the result of an earlier run
C7_Witness ==
    /\ alert = "time-format"
    /\ value["baseWage"] = <<"0">>
    /\ ~WellFormedTime(StartStr)
    /\ WellFormedTime(EndStr)
    /\ result # <<>>

\* C8: when both times are valid and the wage does not parse as a number or
\* parses to a value <= 0 (zero, negative, not numeric), a click shows the
\* wage alert and computes and displays nothing; a run computes a result only
\* for a wage that parses to a value > 0.
C8_WageMustBePositive ==
    [][CalculateWage =>
          /\ (value["baseWage"] \in RejectedWages => BadWage(value["baseWage"]))
          /\ (WellFormedTime(StartStr) /\ WellFormedTime(EndStr)
                /\ BadWage(value["baseWage"]))
                => (alert' = "rate" /\ result' = result /\ calc' = calc)
          /\ alert' = "none" =>
                /\ ~BadWage(value["baseWage"])
                /\ calc' # <<>>
                /\ calc'[1].baseWage = parseFloat(value["baseWage"])
                /\ FGt(calc'[1].baseWage, F0)
                /\ result' = resultParts(calc'[1])]_vars

\* The wage alert was shown for a negative wage and two valid times, over the
\* result of an earlier run
C8_Witness ==
    /\ alert = "rate"
    /\ value["baseWage"] = <<"-", "5">>
    /\ WellFormedTime(StartStr) /\ WellFormedTime(EndStr)
    /\ result # <<>>

\* The digits of s in its first c characters
DigitsBefore(s, c) == Len(StripNonDigits(SubSeq(s, 1, c)))

\* The first at most 4 digits of s, a colon after the 2nd
Reformatted(s) ==
    LET d == StripNonDigits(s)
        n == Min(Len(d), 4)
    IN  IF n < 2 THEN SubSeq(d, 1, n)
        ELSE SubSeq(d, 1, 2) \o <<":">> \o SubSeq(d, 3, n)

\* The value a run of formatTimeInput leaves is the first at most 4 digits of
\* the value it read, a colon after the 2nd.
FormatKeepsDigits ==
    fmt # <<>> => fmt[1].outValue = Reformatted(fmt[1].inValue)

\* C10: once formatTimeInput has run, the field holds the first at most 4
\* digits of its previous value with a colon after the 2nd, and the cursor is
\* preserved: as many digits are to its left after the run as before it.
C10_FormatKeepsCursor ==
    fmt # <<>> =>
        /\ fmt[1].outValue = Reformatted(fmt[1].inValue)
        /\ DigitsBefore(fmt[1].outValue, fmt[1].outCursor)
              = DigitsBefore(fmt[1].inValue, fmt[1].inCursor)

====
